---- MODULE Spec2Model ----
(***************************************************************************)
(* gulp-oss-sync: the Publisher of src/index.js as a state machine.        *)
(*                                                                         *)
(* A run is one call of module.exports: a Publisher is constructed over    *)
(* the cache file on disk, push() returns a through2 object stream, and    *)
(* gulp.src pipes file records into it (src/unnamed/part_000).  The        *)
(* transform handles one file at a time; 'finish' fires after the source   *)
(* has ended and the last write has been called back.                      *)
(*                                                                         *)
(* Strings are sequences of tokens, so that concatenation and the          *)
(* backslash replacement of initFile are computed, not assumed.            *)
(***************************************************************************)
EXTENDS Integers, Sequences, FiniteSets, TLC

(***************************************************************************)
(* Bounds of the model.                                                    *)
(***************************************************************************)
\* the put calls one run may see succeed (the upload counter's cap)
MaxUploads == 10

(***************************************************************************)
(* Input domain: the file records gulp.src may deliver.                    *)
(***************************************************************************)
\* file.relative of the buffered files (a Windows path among them)
Relatives == { <<"a", ".png">>, <<"d", "\\", "b", ".js">> }

\* file.contents of the buffered files
Contents == { <<120>>, <<121, 121>> }

\* a file that carries no `oss` annotation yet
NoOss == [set |-> FALSE]

NoFile == [kind |-> "none"]

\* a file that an upstream plugin has annotated already: initFile keeps its
\* `oss`, here with a Cache-Control header of its own
PresetOss ==
  [set |-> TRUE,
   headers |-> [n \in {"Cache-Control", "Content-Type", "Content-Length"} |->
                  IF n = "Cache-Control" THEN "max-age=60"
                  ELSE IF n = "Content-Length" THEN -1 ELSE "undefined"],
   path |-> <<"a", ".png">>, state |-> "undefined", etag |-> <<>>]

Files ==
  {[kind |-> "null", relative |-> <<"a", ".png">>, contents |-> <<>>, oss |-> NoOss],
   [kind |-> "stream", relative |-> <<"a", ".png">>, contents |-> <<>>, oss |-> NoOss],
   [kind |-> "buffer", relative |-> <<"a", ".png">>, contents |-> <<120>>, oss |-> PresetOss]}
  \cup { [kind |-> "buffer", relative |-> r, contents |-> c, oss |-> NoOss] :
           r \in Relatives, c \in Contents }

isNull(file) == file.kind = "null"
isStream(file) == file.kind = "stream"
isBuffer(file) == file.kind = "buffer"

\* setting.dir of the configuration
Dir == <<"foo">>

\* ossConfig.setting: the flags the code reads
Settings == [force : BOOLEAN, noClean : BOOLEAN, simulate : BOOLEAN]

(***************************************************************************)
(* Headers: a function over the header names; Absent marks a missing key.  *)
(***************************************************************************)
HeaderNames == {"Cache-Control", "Content-Type", "Content-Length"}

Absent(name) == IF name = "Content-Length" THEN -1 ELSE "undefined"

NoHeaders == [n \in HeaderNames |-> Absent(n)]

\* controls.headers as configured (README: "Cache-Control": "no-cache")
DefaultHeaders == [NoHeaders EXCEPT !["Cache-Control"] = "no-cache"]

\* Object.assign({}, a, b): the keys of b override those of a
Assign(a, b) == [n \in HeaderNames |-> IF b[n] # Absent(n) THEN b[n] ELSE a[n]]

\* mime.getType by extension (the last token of the path); "null" if unknown
mimeType(path) ==
  LET ext == IF Len(path) = 0 THEN "" ELSE path[Len(path)]
  IN  IF ext = ".png" THEN "image/png"
      ELSE IF ext = ".js" THEN "application/javascript"
      ELSE IF ext = ".txt" THEN "text/plain"
      ELSE "null"

\* charsets(mimeType): text types, javascript and json are UTF-8
charsets(mime) == mime \in {"application/javascript", "text/plain"}

getContentType(file) ==
  LET mime == mimeType(file.relative)
  IN  IF charsets(mime)
        THEN IF mime = "application/javascript"
               THEN "application/javascript; charset=utf-8"
               ELSE "text/plain; charset=utf-8"
        ELSE mime

(***************************************************************************)
(* Fingerprint and path.                                                   *)
(***************************************************************************)
\* crypto md5 hex digest: distinct on the contents of the model
md5Hash(buf) ==
  IF buf = <<120>> THEN "9dd4e461268c8034f5c8564e155c67a6"
  ELSE IF buf = <<121, 121>> THEN "2fb1c5cf58867b5bbc9a1b145a86f3a0"
  ELSE "d41d8cd98f00b204e9800998ecf8427e"

\* etag = '"' + md5Hash(file.contents) + '"'
Etag(buf) == <<"\"", md5Hash(buf), "\"">>

\* file.relative.replace(/\\/g, '/')
ReplaceBackslash(rel) == [i \in DOMAIN rel |-> IF rel[i] = "\\" THEN "/" ELSE rel[i]]

\* the default callback of initFile: function (str) { return str; }
fileName(str) == str

initFile(file) ==
  IF ~file.oss.set
    THEN [file EXCEPT !.oss = [set |-> TRUE, headers |-> NoHeaders,
                               path |-> fileName(ReplaceBackslash(file.relative)),
                               state |-> "undefined", etag |-> <<>>]]
    ELSE file

\* the key without its separator
DestKeyNoSeparator(path) == Dir \o path

\* `${setting.dir}/${path}`
DestKey(path) == Dir \o <<"/">> \o path

(***************************************************************************)
(* A cache object: the sequence of its <<key, value>> members in insertion *)
(* order, keys unique.                                                     *)
(***************************************************************************)
Undefined == <<>>

hasOwnProperty(cache, key) == \E i \in DOMAIN cache : cache[i][1] = key

Get(cache, key) ==
  IF hasOwnProperty(cache, key)
    THEN cache[CHOOSE i \in DOMAIN cache : cache[i][1] = key][2]
    ELSE Undefined

\* an assignment that keeps the entry a key has already
SetKeyFirstWins(cache, key, value) ==
  IF hasOwnProperty(cache, key) THEN cache ELSE Append(cache, <<key, value>>)

\* cache[key] = value
SetKey(cache, key, value) ==
  IF hasOwnProperty(cache, key)
    THEN [i \in DOMAIN cache |-> IF cache[i][1] = key THEN <<key, value>> ELSE cache[i]]
    ELSE Append(cache, <<key, value>>)

\* Object.keys(cache)
Keys(cache) == [i \in DOMAIN cache |-> cache[i][1]]

(***************************************************************************)
(* The cache file: JSON text as a sequence of tokens.                      *)
(***************************************************************************)
Punct(c) == [t |-> "punct", v |-> <<c>>]
Str(s) == [t |-> "string", v |-> s]

RECURSIVE Members(_)
Members(cache) ==
  IF Len(cache) = 0 THEN <<>>
  ELSE LET m == <<Str(cache[1][1]), Punct(":"), Str(cache[1][2])>>
       IN  IF Len(cache) = 1 THEN m
           ELSE m \o <<Punct(",")>> \o Members(Tail(cache))

\* JSON.stringify(cache)
Stringify(cache) == <<Punct("{")>> \o Members(cache) \o <<Punct("}")>>

ParseError == [error |-> TRUE]

IsPunct(text, i, c) == i <= Len(text) /\ text[i] = Punct(c)
IsStr(text, i) == i <= Len(text) /\ text[i].t = "string"

\* the members from token i on, after `acc`: key ":" value, then "," or "}"
RECURSIVE ParseMembers(_, _, _)
ParseMembers(text, i, acc) ==
  IF IsStr(text, i) /\ IsPunct(text, i + 1, ":") /\ IsStr(text, i + 2)
    THEN LET next == SetKey(acc, text[i].v, text[i + 2].v)
         IN  IF IsPunct(text, i + 3, "}") /\ Len(text) = i + 3 THEN [error |-> FALSE, value |-> next]
             ELSE IF IsPunct(text, i + 3, ",") THEN ParseMembers(text, i + 4, next)
             ELSE ParseError
    ELSE ParseError

\* JSON.parse(text), for the object texts saveCache writes; anything else throws
Parse(text) ==
  IF ~IsPunct(text, 1, "{") THEN ParseError
  ELSE IF IsPunct(text, 2, "}") /\ Len(text) = 2 THEN [error |-> FALSE, value |-> <<>>]
  ELSE ParseMembers(text, 2, <<>>)

\* the file system entry of the cache file
Missing == [exists |-> FALSE, text |-> <<>>]
OnDisk(text) == [exists |-> TRUE, text |-> text]

\* fs.writeFileSync(filename, JSON.stringify(cache))
saveCache(cache) == OnDisk(Stringify(cache))

(***************************************************************************)
(* State.                                                                  *)
(***************************************************************************)
VARIABLES
  cacheFile,   \* the cache file on disk (getCacheFilename())
  setting,     \* this.config.setting
  controls,    \* this.config.controls.headers
  oldCache,    \* this._oldCache
  newCache,    \* this._newCache
  counter,     \* the upload counter of push()
  cur,         \* the file whose put is in flight, NoFile when the transform is idle
  piped,       \* gulp.src is still piped into the stream
  finished,    \* onFinish has run
  deleting,    \* the deleteMulti call of onFinish is in flight
  uploaded,    \* the <<path, etag>> whose put succeeded in this run
  effects,     \* the latest handler: its invocation, then what it did, in order
  busy,        \* the transform has not called back: through2 holds the next write
  pending,     \* the number of put calls in flight
  unsaved,     \* history: the puts that succeeded since the cache file was written
  seen,        \* history: <<path, etag>> of the last buffered file seen, per path
  seenAll,     \* history: <<path, etag>> of every buffered file seen in this run
  putKeys,     \* history: <<path, key>> of the put calls issued, in all runs so far
  prev         \* history: the run before, NoPrev unless it is on record

vars == <<cacheFile, setting, controls, oldCache, newCache, counter, cur, piped,
          finished, deleting, uploaded, effects, busy, pending, unsaved, seen,
          seenAll, putKeys, prev>>

\* no run before is on record
NoPrev == [ran |-> FALSE]

\* the upload counter's cadence: if (++counter % 10 === 0) storeCache()
CheckpointEvery == 10

Effect(e, arg) == [e |-> e, arg |-> arg]

\* cb(err, file) of the transform: through2 pushes a file given without error
Callback(err, file) == Effect("cb", [err |-> err, file |-> file])

(***************************************************************************)
(* Construction: new Publisher(ossConfig, cacheOptions), then push().      *)
(***************************************************************************)
\* the normalized paths and the etags the model's files can produce
Paths == { ReplaceBackslash(r) : r \in Relatives }
Etags == { Etag(c) : c \in Contents }

\* the cache objects an earlier run may have left: every cache over Paths
Caches ==
  {<<>>}
  \cup { << <<p, e>> >> : p \in Paths, e \in Etags }
  \cup { c \in { << <<p, e>>, <<q, g>> >> : p \in Paths, q \in Paths, e \in Etags, g \in Etags } :
           c[1][1] # c[2][1] }

\* the cache file before the first run: none, a truncated one, or a saved cache
Disks == {Missing, OnDisk(<<Punct("{")>>)} \cup { saveCache(c) : c \in Caches }

\* a constructor that reads the cache file under force too
LoadCacheIgnoringForce(disk, force) ==
  IF ~disk.exists THEN <<>>
  ELSE LET parsed == Parse(disk.text)
       IN  IF parsed.error THEN <<>> ELSE parsed.value

\* a constructor that never finds the cache file
LoadCacheNothing(disk, force) == <<>>

\* the `load cache` branch of the constructor: _oldCache
LoadCache(disk, force) ==
  IF force THEN <<>>
  ELSE IF ~disk.exists THEN <<>>
  ELSE LET parsed == Parse(disk.text)
       IN  IF parsed.error THEN <<>> ELSE parsed.value

\* the cache file after the constructor: fs.unlinkSync under force
DiskAfterConstruct(disk, force) == IF force THEN Missing ELSE disk

\* the state module.exports leaves: a constructed Publisher and its stream
Constructed(disk, s) ==
  [cacheFile |-> DiskAfterConstruct(disk, s.force),
   oldCache |-> LoadCache(disk, s.force)]

Init ==
  \E disk \in Disks, s \in Settings :
    /\ cacheFile = Constructed(disk, s).cacheFile
    /\ oldCache = Constructed(disk, s).oldCache
    /\ setting = s
    /\ controls = DefaultHeaders
    /\ newCache = <<>>
    /\ counter = 0
    /\ cur = NoFile
    /\ piped = TRUE
    /\ finished = FALSE
    /\ deleting = FALSE
    /\ uploaded = {}
    /\ effects = <<Effect("exports", s)>>
    /\ busy = FALSE
    /\ pending = 0
    /\ unsaved = 0
    /\ seen = {}
    /\ seenAll = {}
    /\ putKeys = {}
    /\ prev = NoPrev

(***************************************************************************)
(* The transform of push(): one file record written by the source.         *)
(***************************************************************************)
\* a comparison that never finds the file in the cache
IdenticalNever(cache, path, etag) == FALSE

\* _oldCache[path] === etag
Identical(cache, path, etag) == Get(cache, path) = etag

\* the content-type and content-length headers, unless the file brings its own
FillHeaders(file) ==
  LET h == file.oss.headers
      ct == IF h["Content-Type"] \in {Absent("Content-Type"), "null", ""}
              THEN getContentType(file) ELSE h["Content-Type"]
      cl == IF h["Content-Length"] \in {Absent("Content-Length"), 0}
              THEN Len(file.contents) ELSE h["Content-Length"]
  IN  [file EXCEPT !.oss.headers = [h EXCEPT !["Content-Type"] = ct, !["Content-Length"] = cl]]

\* the put call of the transform: key, body and the controls passed
PutCall(file, headers) ==
  Effect("put", [key |-> DestKey(file.oss.path), body |-> file.contents, headers |-> headers])

\* a file with no contents: cb()
TransformNull(file) ==
  /\ isNull(file)
  /\ effects' = <<Effect("transform", file), Callback(FALSE, NoFile)>>
  /\ busy' = FALSE
  /\ UNCHANGED <<cacheFile, setting, controls, oldCache, newCache, counter, cur, piped,
                 finished, deleting, uploaded, pending, unsaved, seen, seenAll,
                 putKeys, prev>>

\* a streamed file: emit 'error', then cb().  The pipe of the source unpipes
\* on the destination's 'error'; with no other listener the emit throws and
\* cb() is not reached.
TransformStream(file) ==
  /\ isStream(file)
  /\ piped' = FALSE
  /\ \E listener \in BOOLEAN :
       /\ effects' = <<Effect("transform", file),
                       Effect("error", [message |-> "Stream content is not supported"])>>
                     \o (IF listener THEN <<Callback(FALSE, NoFile)>> ELSE <<>>)
       /\ busy' = ~listener
  /\ UNCHANGED <<cacheFile, setting, controls, oldCache, newCache, counter, cur,
                 finished, deleting, uploaded, pending, unsaved, seen, seenAll,
                 putKeys, prev>>

\* the history of the buffered files seen: the last per path, and all of them
SeenLast(history, path, etag) == {x \in history : x[1] # path} \cup {<<path, etag>>}

\* a transform that calls back as soon as it has issued the put
TransformBufferEarlyCallback(file) ==
  /\ isBuffer(file)
  /\ LET f1 == initFile(file)
         etag == Etag(f1.contents)
         path == f1.oss.path
     IN  /\ newCache' = SetKey(newCache, path, etag)
         /\ seen' = SeenLast(seen, ReplaceBackslash(file.relative), Etag(file.contents))
         /\ seenAll' = seenAll \cup {<<ReplaceBackslash(file.relative), Etag(file.contents)>>}
         /\ busy' = FALSE
         /\ IF Identical(oldCache, path, etag)
              THEN /\ effects' = <<Effect("transform", file),
                                     Callback(FALSE, [f1 EXCEPT !.oss.state = "cache"])>>
                   /\ UNCHANGED <<controls, cur, pending, putKeys>>
              ELSE LET f2 == FillHeaders([f1 EXCEPT !.oss.state = "upload", !.oss.etag = etag])
                   IN  IF setting.simulate
                         THEN /\ effects' = <<Effect("transform", file), Callback(FALSE, f2)>>
                              /\ UNCHANGED <<controls, cur, pending, putKeys>>
                         ELSE /\ controls' = Assign(controls, f2.oss.headers)
                              /\ effects' = <<Effect("transform", file), PutCall(f2, controls'),
                                              Callback(FALSE, f2)>>
                              /\ cur' = f2
                              /\ pending' = pending + 1
                              /\ putKeys' = putKeys \cup {<<path, PutCall(f2, controls').arg.key>>}
  /\ UNCHANGED <<cacheFile, setting, oldCache, counter, piped, finished, deleting, uploaded,
                 unsaved, prev>>

\* a buffered file: record it, then pass it on as cached, simulate, or put it
\* and leave the callback to the put's outcome
TransformBuffer(file) ==
  /\ isBuffer(file)
  /\ LET f1 == initFile(file)
         etag == Etag(f1.contents)
         path == f1.oss.path
     IN  /\ newCache' = SetKey(newCache, path, etag)
         /\ seen' = SeenLast(seen, ReplaceBackslash(file.relative), Etag(file.contents))
         /\ seenAll' = seenAll \cup {<<ReplaceBackslash(file.relative), Etag(file.contents)>>}
         /\ IF Identical(oldCache, path, etag)
              THEN /\ effects' = <<Effect("transform", file),
                                     Callback(FALSE, [f1 EXCEPT !.oss.state = "cache"])>>
                   /\ busy' = FALSE
                   /\ UNCHANGED <<controls, cur, pending, putKeys>>
              ELSE LET f2 == FillHeaders([f1 EXCEPT !.oss.state = "upload", !.oss.etag = etag])
                   IN  IF setting.simulate
                         THEN /\ effects' = <<Effect("transform", file), Callback(FALSE, f2)>>
                              /\ busy' = FALSE
                              /\ UNCHANGED <<controls, cur, pending, putKeys>>
                         ELSE /\ controls' = Assign(controls, f2.oss.headers)
                              /\ effects' = <<Effect("transform", file), PutCall(f2, controls')>>
                              /\ cur' = f2
                              /\ busy' = TRUE
                              /\ pending' = pending + 1
                              /\ putKeys' = putKeys \cup {<<path, PutCall(f2, controls').arg.key>>}
  /\ UNCHANGED <<cacheFile, setting, oldCache, counter, piped, finished, deleting, uploaded,
                 unsaved, prev>>

transform ==
  /\ piped /\ ~finished /\ ~busy
  /\ counter < MaxUploads
  /\ \E file \in Files :
       \/ TransformNull(file)
       \/ TransformStream(file)
       \/ TransformBuffer(file)

(***************************************************************************)
(* The put call settles.                                                   *)
(***************************************************************************)
\* a resolution that tests the counter before it counts: counter++ % 10
putResolvedCountsAfterTest ==
  /\ pending > 0
  /\ counter' = counter + 1
  /\ IF counter % CheckpointEvery = 0
       THEN /\ cacheFile' = saveCache(newCache)
            /\ effects' = <<Effect("putResolved", cur), Effect("storeCache", newCache),
                             Callback(FALSE, cur)>>
            /\ unsaved' = 0
       ELSE /\ UNCHANGED cacheFile
            /\ effects' = <<Effect("putResolved", cur), Callback(FALSE, cur)>>
            /\ unsaved' = unsaved + 1
  /\ uploaded' = uploaded \cup {<<cur.oss.path, cur.oss.etag>>}
  /\ cur' = NoFile
  /\ busy' = FALSE
  /\ pending' = pending - 1
  /\ UNCHANGED <<setting, controls, oldCache, newCache, piped, finished, deleting, seen,
                 seenAll, putKeys, prev>>

\* put resolved: count it, checkpoint on every tenth, cb(null, file)
putResolved ==
  /\ pending > 0
  /\ counter' = counter + 1
  /\ IF counter' % CheckpointEvery = 0
       THEN /\ cacheFile' = saveCache(newCache)
            /\ effects' = <<Effect("putResolved", cur), Effect("storeCache", newCache),
                             Callback(FALSE, cur)>>
            /\ unsaved' = 0
       ELSE /\ UNCHANGED cacheFile
            /\ effects' = <<Effect("putResolved", cur), Callback(FALSE, cur)>>
            /\ unsaved' = unsaved + 1
  /\ uploaded' = uploaded \cup {<<cur.oss.path, cur.oss.etag>>}
  /\ cur' = NoFile
  /\ busy' = FALSE
  /\ pending' = pending - 1
  /\ UNCHANGED <<setting, controls, oldCache, newCache, piped, finished, deleting, seen,
                 seenAll, putKeys, prev>>

\* put rejected: cb(err, file).  An error given to the callback of a through2
\* transform makes the stream emit 'error', and the pipe of the source unpipes
\* on the destination's 'error': no further file is written, and nothing ends
\* the stream.
putRejected ==
  /\ pending > 0
  /\ effects' = <<Effect("putRejected", cur), Callback(TRUE, cur)>>
  /\ piped' = FALSE
  /\ cur' = NoFile
  /\ busy' = FALSE
  /\ pending' = pending - 1
  /\ UNCHANGED <<cacheFile, setting, controls, oldCache, newCache, counter, finished,
                 deleting, uploaded, unsaved, seen, seenAll, putKeys, prev>>

(***************************************************************************)
(* onFinish: the source has ended and every write has been called back.    *)
(***************************************************************************)
RECURSIVE FilterSeen(_, _)
\* a filter that keeps the paths the new cache has
FilterSeen(keys, new) ==
  IF Len(keys) = 0 THEN <<>>
  ELSE IF hasOwnProperty(new, keys[1]) THEN <<keys[1]>> \o FilterSeen(Tail(keys), new)
  ELSE FilterSeen(Tail(keys), new)

RECURSIVE Filter(_, _)
\* Object.keys(old).filter(path => !new.hasOwnProperty(path))
Filter(keys, new) ==
  IF Len(keys) = 0 THEN <<>>
  ELSE IF ~hasOwnProperty(new, keys[1]) THEN <<keys[1]>> \o Filter(Tail(keys), new)
  ELSE Filter(Tail(keys), new)

\* objs without the filter: every key of the old cache
DeleteObjsUnfiltered(old, new) == [i \in DOMAIN old |-> DestKey(old[i][1])]

\* objs: the keys handed to deleteMulti
DeleteObjs(old, new) ==
  LET gone == Filter(Keys(old), new)
  IN  [i \in DOMAIN gone |-> DestKey(gone[i])]

\* a report that counts every path found in both caches as replaced
reportReplacedWhenKnown(new, old) ==
  [new |-> Cardinality({i \in DOMAIN new : ~hasOwnProperty(old, new[i][1])}),
   ign |-> Cardinality({i \in DOMAIN new : hasOwnProperty(old, new[i][1])
                                            /\ Get(old, new[i][1]) = new[i][2]}),
   rep |-> Cardinality({i \in DOMAIN new : hasOwnProperty(old, new[i][1])}),
   del |-> Cardinality({i \in DOMAIN old : ~hasOwnProperty(new, old[i][1])})]

\* report(newCache, oldCache): the four counts of the summary line
report(new, old) ==
  [new |-> Cardinality({i \in DOMAIN new : ~hasOwnProperty(old, new[i][1])}),
   ign |-> Cardinality({i \in DOMAIN new : hasOwnProperty(old, new[i][1])
                                            /\ Get(old, new[i][1]) = new[i][2]}),
   rep |-> Cardinality({i \in DOMAIN new : hasOwnProperty(old, new[i][1])
                                            /\ Get(old, new[i][1]) # new[i][2]}),
   del |-> Cardinality({i \in DOMAIN old : ~hasOwnProperty(new, old[i][1])})]

\* an onFinish that tests noClean before it stores the cache
onFinishCleanFirst ==
  /\ piped /\ ~finished /\ ~busy
  /\ finished' = TRUE
  /\ IF setting.noClean
       THEN /\ effects' = <<Effect("onFinish", setting)>>
            /\ UNCHANGED <<deleting, cacheFile, unsaved>>
       ELSE LET objs == DeleteObjs(oldCache, newCache)
            IN  /\ cacheFile' = saveCache(newCache)
                /\ unsaved' = 0
                /\ deleting' = (Len(objs) > 0)
                /\ effects' = <<Effect("onFinish", setting), Effect("storeCache", newCache)>>
                     \o (IF Len(objs) > 0 THEN <<Effect("deleteMulti", objs)>> ELSE <<>>)
                     \o <<Effect("report", report(newCache, oldCache))>>
  /\ UNCHANGED <<setting, controls, oldCache, newCache, counter, cur, piped, uploaded,
                 busy, pending, seen, seenAll, putKeys, prev>>

onFinish ==
  /\ piped /\ ~finished /\ ~busy
  /\ finished' = TRUE
  /\ cacheFile' = saveCache(newCache)
  /\ unsaved' = 0
  /\ IF setting.noClean
       THEN /\ effects' = <<Effect("onFinish", setting), Effect("storeCache", newCache)>>
            /\ UNCHANGED deleting
       ELSE LET objs == DeleteObjs(oldCache, newCache)
            IN  /\ deleting' = (Len(objs) > 0)
                /\ effects' = <<Effect("onFinish", setting), Effect("storeCache", newCache)>>
                     \o (IF Len(objs) > 0 THEN <<Effect("deleteMulti", objs)>> ELSE <<>>)
                     \o <<Effect("report", report(newCache, oldCache))>>
  /\ UNCHANGED <<setting, controls, oldCache, newCache, counter, cur, piped, uploaded,
                 busy, pending, seen, seenAll, putKeys, prev>>

\* deleteMulti resolved
deleteResolved ==
  /\ deleting
  /\ deleting' = FALSE
  /\ effects' = <<Effect("deleteResolved", setting)>>
  /\ UNCHANGED <<cacheFile, setting, controls, oldCache, newCache, counter, cur, piped,
                 finished, uploaded, busy, pending, unsaved, seen, seenAll, putKeys, prev>>

\* deleteMulti rejected: log('[Cleanup failed]', err)
deleteRejected ==
  /\ deleting
  /\ deleting' = FALSE
  /\ effects' = <<Effect("deleteRejected", setting),
                   Effect("log", [message |-> "[Cleanup failed]"])>>
  /\ UNCHANGED <<cacheFile, setting, controls, oldCache, newCache, counter, cur, piped,
                 finished, uploaded, busy, pending, unsaved, seen, seenAll, putKeys, prev>>

(***************************************************************************)
(* The next run: module.exports is called again over the cache file the    *)
(* run before has left.                                                    *)
(***************************************************************************)
RunOver == pending = 0 /\ ~deleting /\ (finished \/ ~piped)

exports ==
  /\ RunOver
  /\ \E s \in Settings :
       /\ cacheFile' = Constructed(cacheFile, s).cacheFile
       /\ oldCache' = Constructed(cacheFile, s).oldCache
       /\ setting' = s
  /\ controls' = DefaultHeaders
  /\ newCache' = <<>>
  /\ counter' = 0
  /\ cur' = NoFile
  /\ piped' = TRUE
  /\ finished' = FALSE
  /\ deleting' = FALSE
  /\ uploaded' = {}
  /\ effects' = <<Effect("exports", setting')>>
  /\ busy' = FALSE
  /\ pending' = 0
  /\ unsaved' = 0
  /\ seen' = {}
  /\ seenAll' = {}
  /\ UNCHANGED putKeys
  /\ prev' = NoPrev

Next ==
  \/ transform
  \/ putResolved
  \/ putRejected
  \/ onFinish
  \/ deleteResolved
  \/ deleteRejected
  \/ exports

Spec == Init /\ [][Next]_vars

(***************************************************************************)
(* Two runs with one configuration: the second is module.exports called    *)
(* again with the same ossConfig, over the cache file the first has left,  *)
(* and the first is on record.                                             *)
(***************************************************************************)
\* the record of the run that is over
RunRecord == [ran |-> TRUE, files |-> seenAll, cache |-> cacheFile]

\* gulp.src delivers each file of the tree once in a run: the transform of a
\* buffered file the run has not seen yet
transformOnce == transform /\ seenAll' # seenAll

\* the second run starts when the first has finished
exportsAgain ==
  /\ RunOver
  /\ finished
  /\ ~prev.ran
  /\ prev' = RunRecord
  /\ cacheFile' = Constructed(cacheFile, setting).cacheFile
  /\ oldCache' = Constructed(cacheFile, setting).oldCache
  /\ controls' = DefaultHeaders
  /\ newCache' = <<>>
  /\ counter' = 0
  /\ cur' = NoFile
  /\ piped' = TRUE
  /\ finished' = FALSE
  /\ deleting' = FALSE
  /\ uploaded' = {}
  /\ effects' = <<Effect("exports", setting)>>
  /\ busy' = FALSE
  /\ pending' = 0
  /\ unsaved' = 0
  /\ seen' = {}
  /\ seenAll' = {}
  /\ UNCHANGED <<setting, putKeys>>

NextRuns ==
  \/ transformOnce
  \/ putResolved
  \/ putRejected
  \/ onFinish
  \/ deleteResolved
  \/ deleteRejected
  \/ exportsAgain

\* the configuration of the two runs: force and simulate are off
InitRuns == Init /\ ~setting.force /\ ~setting.simulate

SpecRuns == InitRuns /\ [][NextRuns]_vars

(***************************************************************************)
(* Vocabulary of the properties.                                           *)
(***************************************************************************)
Range(s) == { s[i] : i \in DOMAIN s }

\* the latest handler to run was `name`
Invoked(name) == Len(effects) > 0 /\ effects[1].e = name

\* the latest handler was the transform, given `file`
TransformOf(file) == Invoked("transform") /\ effects[1].arg = file

\* the places of the effects of kind e in the latest handler
Did(e) == { i \in DOMAIN effects : effects[i].e = e }

\* the normalized path and the etag of a buffered file
PathOf(file) == ReplaceBackslash(file.relative)
EtagOf(file) == <<"\"", md5Hash(file.contents), "\"">>

\* the latest handler passed `file` on, annotated with `state`, without error
PassedOn(file, state) ==
  \E i \in Did("cb") :
    /\ ~effects[i].arg.err
    /\ effects[i].arg.file # NoFile
    /\ effects[i].arg.file.relative = file.relative
    /\ effects[i].arg.file.contents = file.contents
    /\ effects[i].arg.file.oss.state = state

\* the cache file exists and loads as `cache`
Holds(disk, cache) == disk.exists /\ Parse(disk.text) = [error |-> FALSE, value |-> cache]

\* the file is in the old cache with the etag it has now
Unchanged(file) == Get(oldCache, PathOf(file)) = EtagOf(file)

BufferFiles == { f \in Files : isBuffer(f) }

\* the latest handler issued one put call, for `file` under its destination key,
\* and the call is in flight
OnePutFor(file) ==
  /\ Cardinality(Did("put")) = 1
  /\ \A i \in Did("put") :
       /\ effects[i].arg.key = Dir \o <<"/">> \o PathOf(file)
       /\ effects[i].arg.body = file.contents
  /\ cur # NoFile

\* the destination keys of the paths of the old cache the run has not seen
DeleteSet ==
  { Dir \o <<"/">> \o p : p \in { q \in Range(Keys(oldCache)) : q \notin Range(Keys(newCache)) } }

\* the source can still write the next file to the transform
StreamGoesOn == piped /\ ~finished

\* no two files of the set share a normalized path
DistinctPaths(files) == \A x, y \in files : x[1] = y[1] => x = y

\* the entries a cache file holds
EntriesOf(disk) ==
  LET parsed == Parse(disk.text)
  IN  { <<parsed.value[i][1], parsed.value[i][2]>> : i \in DOMAIN parsed.value }

(***************************************************************************)
(* C1: a buffered file whose etag equals the old cache's entry for its     *)
(* normalized path, force being false, is not put: the transform issues no *)
(* put call and leaves none in flight, passes the file on marked 'cache',  *)
(* and the new cache's entry for the path equals the old one.              *)
(***************************************************************************)
C1_UnchangedFileIsCached ==
  \A file \in BufferFiles :
    (TransformOf(file) /\ ~setting.force /\ Unchanged(file)) =>
      /\ Did("put") = {}
      /\ cur = NoFile
      /\ PassedOn(file, "cache")
      /\ hasOwnProperty(newCache, PathOf(file))
      /\ Get(newCache, PathOf(file)) = Get(oldCache, PathOf(file))

C1_Witness ==
  \E file \in BufferFiles :
    /\ TransformOf(file) /\ ~setting.force /\ Unchanged(file)
    /\ PassedOn(file, "cache")

(***************************************************************************)
(* C2: a buffered file that is new to the old cache, or whose etag         *)
(* differs from the old entry, is recorded in the new cache with its fresh *)
(* etag and put exactly once under the key setting.dir + "/" + path.       *)
(***************************************************************************)
\* C2 as stated: whatever the value of simulate
C2_ChangedFileIsPut ==
  \A file \in BufferFiles :
    (TransformOf(file) /\ ~Unchanged(file)) =>
      /\ OnePutFor(file)
      /\ Get(newCache, PathOf(file)) = EtagOf(file)

\* C2 amended: exactly one put unless simulate is set, and then none; the new
\* cache's entry is the fresh etag either way
C2_ChangedFileIsPutUnlessSimulated ==
  \A file \in BufferFiles :
    (TransformOf(file) /\ ~Unchanged(file)) =>
      /\ IF setting.simulate
           THEN Did("put") = {} /\ cur = NoFile /\ PassedOn(file, "upload")
           ELSE OnePutFor(file)
      /\ Get(newCache, PathOf(file)) = EtagOf(file)

C2_Witness ==
  \E file \in BufferFiles :
    /\ TransformOf(file) /\ ~Unchanged(file) /\ ~setting.simulate
    /\ hasOwnProperty(oldCache, PathOf(file))
    /\ file.relative = <<"d", "\\", "b", ".js">>
    /\ OnePutFor(file)

(***************************************************************************)
(* C3: at finish the keys handed to deleteMulti are exactly                *)
(* setting.dir + "/" + p for the p in the old cache and not in the new     *)
(* one; deleteMulti is called only when there is such a p, and never when  *)
(* noClean is set.                                                         *)
(***************************************************************************)
C3_DeleteSetIsOldMinusNew ==
  Invoked("onFinish") =>
    IF setting.noClean \/ DeleteSet = {}
      THEN Did("deleteMulti") = {} /\ ~deleting
      ELSE /\ Cardinality(Did("deleteMulti")) = 1
           /\ deleting
           /\ \A i \in Did("deleteMulti") :
                /\ Range(effects[i].arg) = DeleteSet
                /\ Len(effects[i].arg) = Cardinality(DeleteSet)

C3_Witness ==
  /\ Invoked("onFinish")
  /\ Len(oldCache) = 2 /\ Len(newCache) = 1
  /\ \E i \in Did("deleteMulti") : Len(effects[i].arg) = 1

(***************************************************************************)
(* C4: under force the cache file is removed when the Publisher is         *)
(* constructed, and every buffered file of the run is put.                 *)
(***************************************************************************)
\* C4 as stated: whatever the value of simulate
C4_ForcePutsEveryFile ==
  setting.force =>
    /\ Invoked("exports") => ~cacheFile.exists
    /\ \A file \in BufferFiles : TransformOf(file) => OnePutFor(file)

\* C4 amended: every buffered file is put when simulate is false, and none is
\* when simulate is set
C4_ForcePutsEveryFileUnlessSimulated ==
  setting.force =>
    /\ Invoked("exports") => ~cacheFile.exists
    /\ \A file \in BufferFiles :
         TransformOf(file) =>
           IF setting.simulate THEN Did("put") = {} /\ cur = NoFile
           ELSE OnePutFor(file)

C4_Witness ==
  /\ setting.force /\ ~setting.simulate
  /\ ~cacheFile.exists
  /\ \E file \in BufferFiles : TransformOf(file) /\ OnePutFor(file)

(***************************************************************************)
(* C5: onFinish writes the new cache to the cache file whatever noClean    *)
(* and the delete set are, and before it calls deleteMulti; when           *)
(* deleteMulti fails, the failure is logged and the cache file still holds *)
(* the new cache.                                                          *)
(***************************************************************************)
C5_FinishSavesBeforeDelete ==
  /\ Invoked("onFinish") =>
       /\ Did("storeCache") # {}
       /\ \A i \in Did("storeCache") : effects[i].arg = newCache
       /\ \A i \in Did("storeCache"), j \in Did("deleteMulti") : i < j
       /\ Holds(cacheFile, newCache)
  /\ Invoked("deleteRejected") =>
       /\ Did("log") # {}
       /\ finished
       /\ Holds(cacheFile, newCache)

C5_Witness ==
  /\ Invoked("deleteRejected")
  /\ Holds(cacheFile, newCache)
  /\ Len(newCache) > 0

(***************************************************************************)
(* C6: when the put of a file fails, the error is reported for that file   *)
(* and the stream goes on: the files after it are still written to the     *)
(* transform.                                                              *)
(***************************************************************************)
C6_PutFailureDoesNotStopStream ==
  Invoked("putRejected") =>
    /\ \E i \in Did("cb") : effects[i].arg.err /\ effects[i].arg.file = effects[1].arg
    /\ StreamGoesOn

(***************************************************************************)
(* C7: every run reaches onFinish, once, also when an error has ended the  *)
(* stream early, and the cache file then holds the new cache built so far. *)
(* Stated on the runs that can take no further step.                       *)
(***************************************************************************)
C7_FinishRunsInEveryRun ==
  RunOver => (finished /\ Holds(cacheFile, newCache))

(***************************************************************************)
(* C8: a streamed file makes the transform emit an error, issue no put and *)
(* add nothing to the new cache, and the run continues: the files after it *)
(* are still written to the transform and onFinish still runs.             *)
(***************************************************************************)
C8_StreamedFileIsSkipped ==
  [][\A file \in Files :
       (isStream(file) /\ Len(effects') > 0 /\ effects'[1] = Effect("transform", file)) =>
         /\ \E i \in DOMAIN effects' : effects'[i].e = "error"
         /\ \A i \in DOMAIN effects' : effects'[i].e # "put"
         /\ cur' = NoFile
         /\ newCache' = newCache
         /\ piped' /\ ~finished']_vars

(***************************************************************************)
(* C9: a file with no contents is passed on downstream as it came, and its *)
(* transform issues no put and changes neither the new cache nor the       *)
(* upload counter.                                                         *)
(***************************************************************************)
C9_NullFilePassesThrough ==
  [][\A file \in Files :
       (isNull(file) /\ Len(effects') > 0 /\ effects'[1] = Effect("transform", file)) =>
         /\ \E i \in DOMAIN effects' :
              /\ effects'[i].e = "cb"
              /\ ~effects'[i].arg.err
              /\ effects'[i].arg.file = file
         /\ \A i \in DOMAIN effects' : effects'[i].e # "put"
         /\ newCache' = newCache
         /\ counter' = counter]_vars

(***************************************************************************)
(* C10: whenever the cache file is written, at a checkpoint or at finish,  *)
(* each of its entries is for a file that has been published with that     *)
(* hash: its put succeeded in this run, or the old cache of the run had    *)
(* the same entry.                                                         *)
(***************************************************************************)
C10_CacheHoldsOnlyPublished ==
  Did("storeCache") # {} =>
    LET written == Parse(cacheFile.text)
    IN  /\ cacheFile.exists /\ ~written.error
        /\ \A i \in DOMAIN written.value :
             \/ <<written.value[i][1], written.value[i][2]>> \in uploaded
             \/ Get(oldCache, written.value[i][1]) = written.value[i][2]

(***************************************************************************)
(* C11: the report of onFinish puts every path in exactly one category:    *)
(* new (in the new cache only), ignored (in both, same hash), replaced (in *)
(* both, other hash), deleted (in the old cache only).  So new + ignored + *)
(* replaced is the number of keys of the new cache, deleted is the number  *)
(* of keys of the old cache that the new one lacks, and deleted is the     *)
(* number of keys handed to deleteMulti in the same onFinish.              *)
(***************************************************************************)
C11_ReportPartitionsPaths ==
  \A i \in Did("report") :
    LET counts == effects[i].arg
        newKeys == Range(Keys(newCache))
        oldKeys == Range(Keys(oldCache))
        both == newKeys \cap oldKeys
    IN  /\ Invoked("onFinish")
        /\ counts.new = Cardinality(newKeys \ oldKeys)
        /\ counts.ign = Cardinality({p \in both : Get(newCache, p) = Get(oldCache, p)})
        /\ counts.rep = Cardinality({p \in both : Get(newCache, p) # Get(oldCache, p)})
        /\ counts.del = Cardinality(oldKeys \ newKeys)
        /\ counts.new + counts.ign + counts.rep = Cardinality(newKeys)
        /\ IF Did("deleteMulti") = {}
             THEN counts.del = 0
             ELSE \A j \in Did("deleteMulti") : Len(effects[j].arg) = counts.del

C11_Witness ==
  \E i \in Did("report") :
    /\ effects[i].arg.rep = 1
    /\ effects[i].arg.del = 1
    /\ Did("deleteMulti") # {}

(***************************************************************************)
(* C12: the files are processed one at a time: at most one put call is in  *)
(* flight at any moment, the stream holds the next write while a put is in *)
(* flight, and so when a transform has run the only put in flight is the   *)
(* one it issued itself: the put of the file before has succeeded or       *)
(* failed before the transform of the next file began.                     *)
(***************************************************************************)
C12_OnePutAtATime ==
  /\ pending <= 1
  /\ pending > 0 => busy
  /\ Invoked("transform") => pending = Cardinality(Did("put"))

C12_Witness ==
  /\ Invoked("transform")
  /\ pending = 1
  /\ Did("put") # {}
  /\ counter >= 1
  /\ uploaded # {}

(***************************************************************************)
(* C13: the upload counter counts the put calls that succeeded and nothing *)
(* else: only the resolution of a put changes it within a run, and by one. *)
(* The resolution of the k-th successful put saves the new cache to the    *)
(* cache file exactly when k is a multiple of 10, so before onFinish at    *)
(* most 9 successful puts have happened since the cache file was written.  *)
(***************************************************************************)
C13_CounterCountsSuccessfulPuts ==
  [][/\ counter' # counter =>
          \/ effects'[1].e = "putResolved" /\ counter' = counter + 1
          \/ effects'[1].e = "exports" /\ counter' = 0
     /\ effects'[1].e = "putResolved" =>
          /\ counter' = counter + 1
          /\ (\E i \in DOMAIN effects' : effects'[i].e = "storeCache") <=> (counter' % 10 = 0)
          /\ (counter' % 10 = 0) => Holds(cacheFile', newCache')
          /\ (counter' % 10 # 0) => cacheFile' = cacheFile
     /\ ~finished' => unsaved' = counter' % 10
     /\ unsaved' <= 9]_vars

C13_Witness ==
  /\ Invoked("putResolved")
  /\ counter = 10
  /\ Did("storeCache") # {}
  /\ Holds(cacheFile, newCache)

(***************************************************************************)
(* C14: at every moment of a run the new cache holds exactly one entry for *)
(* each normalized path of the buffered files seen so far, with the etag   *)
(* of the last file seen under that path, whatever became of the file      *)
(* (cached, put, simulated, put failed); no entry leaves it during the     *)
(* run.                                                                    *)
(***************************************************************************)
C14_NewCacheIsLastSeen ==
  /\ { <<newCache[i][1], newCache[i][2]>> : i \in DOMAIN newCache } = seen
  /\ \A i, j \in DOMAIN newCache : newCache[i][1] = newCache[j][1] => i = j
  /\ { x[1] : x \in seenAll } = { newCache[i][1] : i \in DOMAIN newCache }

C14_Witness ==
  /\ Invoked("putRejected")
  /\ \E u \in uploaded :
       /\ u[1] = effects[1].arg.oss.path
       /\ u[2] # effects[1].arg.oss.etag
       /\ Get(newCache, u[1]) = effects[1].arg.oss.etag

(***************************************************************************)
(* C15: onFinish emits its report only after deleteMulti has settled       *)
(* (resolved, or rejected and logged), never while the deletion is in      *)
(* flight.                                                                 *)
(***************************************************************************)
C15_ReportAfterDeleteSettles ==
  Did("report") # {} => (~deleting /\ Did("deleteMulti") = {})

(***************************************************************************)
(* C16: the headers sent with the put of a file are the configured         *)
(* controls.headers overridden by the file's own headers and nothing else, *)
(* and processing a file leaves the configured headers as they were.       *)
(***************************************************************************)
C16_PutHeadersAreDefaultsAndOwn ==
  /\ controls = DefaultHeaders
  /\ \A file \in BufferFiles :
       TransformOf(file) =>
         \A i \in Did("put") :
           effects[i].arg.headers = Assign(DefaultHeaders, FillHeaders(initFile(file)).oss.headers)

(***************************************************************************)
(* C17: a run never deletes the remote object of a file it has seen: no    *)
(* key handed to deleteMulti at onFinish is setting.dir + "/" + path for a *)
(* path seen in the run, nor a key under which such a path was put; and a  *)
(* path that an earlier put call has sent and the run now deletes is       *)
(* deleted under the key it was put under.                                 *)
(***************************************************************************)
C17_SeenFilesAreNotDeleted ==
  \A j \in Did("deleteMulti") :
    LET keys == Range(effects[j].arg)
        here == { x[1] : x \in seenAll }
        gone == { p \in Range(Keys(oldCache)) : p \notin here }
    IN  /\ Invoked("onFinish")
        /\ \A p \in here : Dir \o <<"/">> \o p \notin keys
        /\ \A pk \in putKeys :
             /\ pk[1] \in here => pk[2] \notin keys
             /\ pk[1] \in gone => pk[2] \in keys
        /\ Len(effects[j].arg) = Cardinality(gone)

C17_Witness ==
  /\ Invoked("onFinish")
  /\ seenAll # {}
  /\ \E j \in Did("deleteMulti"), pk \in putKeys :
       /\ pk[1] \notin { x[1] : x \in seenAll }
       /\ pk[2] \in Range(effects[j].arg)
  /\ \E pk \in putKeys : pk[1] \in { x[1] : x \in seenAll }

(***************************************************************************)
(* C18: the sync is idempotent.  After a first run with force and simulate *)
(* off that has finished, every put having succeeded, a second run with    *)
(* the same configuration over the same files issues no put call and no    *)
(* deleteMulti, reports every path as ignored, and leaves the cache file   *)
(* as the first run wrote it.                                              *)
(***************************************************************************)
\* C18 as stated: any set of files, any noClean, the cache file's text
C18_SecondRunIsIdle ==
  (prev.ran /\ seenAll \subseteq prev.files) =>
    /\ counter = 0 /\ pending = 0 /\ piped /\ Did("put") = {}
    /\ (Invoked("onFinish") /\ seenAll = prev.files) =>
         /\ Did("deleteMulti") = {} /\ ~deleting
         /\ \E i \in Did("report") :
              effects[i].arg.ign = Cardinality({ x[1] : x \in prev.files })
         /\ cacheFile = prev.cache

\* C18 amended: the files have pairwise distinct normalized paths, the report
\* is there when noClean is off, and the cache file holds the same entries
C18_SecondRunOverDistinctPathsIsIdle ==
  (prev.ran /\ DistinctPaths(prev.files) /\ seenAll \subseteq prev.files) =>
    /\ counter = 0 /\ pending = 0 /\ piped /\ Did("put") = {}
    /\ (Invoked("onFinish") /\ seenAll = prev.files) =>
         /\ Did("deleteMulti") = {} /\ ~deleting
         /\ ~setting.noClean =>
              \E i \in Did("report") :
                effects[i].arg = [new |-> 0, ign |-> Cardinality(prev.files), rep |-> 0, del |-> 0]
         /\ setting.noClean => Did("report") = {}
         /\ cacheFile.exists /\ ~Parse(cacheFile.text).error
         /\ EntriesOf(cacheFile) = EntriesOf(prev.cache)
         /\ EntriesOf(cacheFile) = prev.files

C18_Witness ==
  /\ prev.ran
  /\ Cardinality(prev.files) = 2
  /\ DistinctPaths(prev.files)
  /\ Invoked("onFinish")
  /\ seenAll = prev.files
  /\ ~setting.noClean
  /\ \E i \in Did("report") : effects[i].arg.ign = 2
  /\ cacheFile # prev.cache

(***************************************************************************)
(* C19: a run with simulate set makes no remote call: no put while the     *)
(* files are processed, and no deleteMulti at onFinish.                    *)
(***************************************************************************)
C19_SimulateMakesNoRemoteCall ==
  setting.simulate =>
    /\ Did("put") = {} /\ pending = 0
    /\ Did("deleteMulti") = {} /\ ~deleting
====
